---- MODULE Spec2Model ----
(***************************************************************************)
(* Model of main.py: the daily report pipeline.                            *)
(*   import time : load_env_file, load_rss_feeds, load_prompt_template     *)
(*   main()      : fetch_articles, generate_report_md, save_report         *)
(* Strings are sequences of character codes, so that strip, splitlines,    *)
(* split and string comparison are computed as Python computes them.       *)
(***************************************************************************)
EXTENDS Integers, Sequences, FiniteSets, TLC

VARIABLES
    pc,              \* position of the process: "env", "feeds", "template",
                     \* "fetch", "generate", "save", "done", "error"
    error,           \* the exception that ended the process, or "none"
    envFile,         \* .env.local: whether it exists, and its text
    environ,         \* os.environ: a function from names to values
    feedsFile,       \* rss_feeds.txt: whether it exists, and its text
    RSS_FEEDS,       \* module global set by load_rss_feeds
    templateFile,    \* prompt_template.md: whether it exists, and the
                     \* placeholders its text names
    PROMPT_TEMPLATE, \* module global set by load_prompt_template
    web,             \* what feedparser.parse returns for each feed URL
    unique,          \* fetch_articles' dict, in insertion order
    articles,        \* the list main() holds after fetch_articles
    report_md,       \* the text main() holds after generate_report_md
    apiRequests,     \* requests this process made to chat.completions.create
    today,           \* the current UTC date
    reportsNode,     \* "absent", "dir" or "file": what the path reports is
    files,           \* content of reports/report-<date>.md per date, or NoFile
    saveCalls,       \* save_report calls that returned, as (date, text)
    runs             \* number of times the program was started

vars == <<pc, error, envFile, environ, feedsFile, RSS_FEEDS, templateFile,
          PROMPT_TEMPLATE, web, unique, articles, report_md, apiRequests,
          today, reportsNode, files, saveCalls, runs>>

----------------------------------------------------------------------------
(* Characters *)

LF == 10
CR == 13
SPACE == 32
DQUOTE == 34
HASH == 35
SQUOTE == 39
EQUALS == 61

\* The characters str.strip() removes (ASCII whitespace).
Whitespace == {9, LF, 11, 12, CR, 28, 29, 30, 31, SPACE}

\* The characters str.splitlines() breaks a line at.
LineBreaks == {LF, 11, 12, CR, 28, 29, 30}

\* A file that does not exist (path.exists() is false).
Missing == [exists |-> FALSE, text |-> <<>>]

\* A file that exists, with its text.
File(text) == [exists |-> TRUE, text |-> text]

\* An attribute a feed entry or a feed does not have.
Absent == <<-1>>

\* None, as the content of a completion message.
None == [kind |-> "None"]

\* The completion API failing (auth, network, quota): create raises.
APIError == [kind |-> "APIError"]

\* A report file that does not exist.
NoFile == [kind |-> "nofile"]

----------------------------------------------------------------------------
(* str methods *)

RECURSIVE lstrip(_, _)
lstrip(s, chars) ==
    IF s # <<>> /\ Head(s) \in chars THEN lstrip(Tail(s), chars) ELSE s

RECURSIVE rstrip(_, _)
rstrip(s, chars) ==
    IF s # <<>> /\ s[Len(s)] \in chars
    THEN rstrip(SubSeq(s, 1, Len(s) - 1), chars)
    ELSE s

\* s.strip(chars)
strip_chars(s, chars) == rstrip(lstrip(s, chars), chars)

\* s.strip()
strip(s) == strip_chars(s, Whitespace)

\* s.startswith(c) for a one-character c
startswith(s, c) == s # <<>> /\ Head(s) = c

\* c in s
contains(s, c) == \E i \in 1..Len(s) : s[i] = c

\* Index of the first c in s (s contains c).
find(s, c) == CHOOSE i \in 1..Len(s) : s[i] = c /\ \A j \in 1..(i - 1) : s[j] # c

\* s.split(c, 1) for an s that contains c: the two parts.
split_once(s, c) ==
    <<SubSeq(s, 1, find(s, c) - 1), SubSeq(s, find(s, c) + 1, Len(s))>>

RECURSIVE splitlines_from(_, _, _, _)
splitlines_from(s, i, cur, acc) ==
    IF i > Len(s)
    THEN IF cur = <<>> THEN acc ELSE Append(acc, cur)
    ELSE IF s[i] \in LineBreaks
         THEN LET next == IF s[i] = CR /\ i < Len(s) /\ s[i + 1] = LF
                          THEN i + 2
                          ELSE i + 1
              IN  splitlines_from(s, next, <<>>, Append(acc, cur))
         ELSE splitlines_from(s, i + 1, Append(cur, s[i]), acc)

\* s.splitlines()
splitlines(s) == splitlines_from(s, 1, <<>>, <<>>)

\* a < b for Python strings: lexicographic on the character codes.
RECURSIVE str_less(_, _)
str_less(a, b) ==
    IF b = <<>> THEN FALSE
    ELSE IF a = <<>> THEN TRUE
    ELSE IF Head(a) # Head(b) THEN Head(a) < Head(b)
    ELSE str_less(Tail(a), Tail(b))

----------------------------------------------------------------------------
(* load_env_file *)

\* os.environ.setdefault(key, value)
\* Variant: the value is replaced when the name is already set.
setdefault_overwrites(env, key, value) ==
    [k \in DOMAIN env \cup {key} |-> IF k = key THEN value ELSE env[k]]

setdefault(env, key, value) ==
    IF key \in DOMAIN env
    THEN env
    ELSE [k \in DOMAIN env \cup {key} |-> IF k = key THEN value ELSE env[k]]

\* The body of the loop over the lines: the line skipped, or the pair set.
\* os.environ refuses an empty name (putenv raises ValueError or OSError,
\* by interpreter version), which ends the loop; raised carries that to the
\* caller.
env_line(st, raw_line) ==
    LET line == strip(raw_line)
        kv == split_once(line, EQUALS)
        key == strip(kv[1])
        value == strip_chars(strip_chars(strip(kv[2]), {DQUOTE}), {SQUOTE})
    IN  IF st.raised THEN st
        ELSE IF line = <<>> \/ startswith(line, HASH) \/ ~contains(line, EQUALS)
        THEN st
        ELSE IF key = <<>>
        THEN [env |-> st.env, raised |-> TRUE]
        ELSE [env |-> setdefault(st.env, key, value), raised |-> FALSE]

RECURSIVE env_lines(_, _)
env_lines(st, lines) ==
    IF lines = <<>> THEN st ELSE env_lines(env_line(st, Head(lines)), Tail(lines))

\* load_env_file(path): the environment after the call, and whether it raised.
load_env_file(file, env) ==
    IF ~file.exists
    THEN [env |-> env, raised |-> FALSE]
    ELSE env_lines([env |-> env, raised |-> FALSE], splitlines(file.text))

----------------------------------------------------------------------------
(* load_rss_feeds *)

\* The loop's test: the line is skipped.
\* Variant: comment lines are not skipped.
feed_line_skipped_blank_only(line) == line = <<>>

feed_line_skipped(line) == line = <<>> \/ startswith(line, HASH)

RECURSIVE feed_lines(_, _)
feed_lines(feeds, lines) ==
    IF lines = <<>> THEN feeds
    ELSE LET line == strip(Head(lines))
         IN  feed_lines(IF feed_line_skipped(line) THEN feeds
                        ELSE Append(feeds, line),
                        Tail(lines))

\* load_rss_feeds(path): the list returned, or the exception raised.
\* Variant: a file with no usable line yields an empty list.
load_rss_feeds_returns_empty(file) ==
    IF ~file.exists
    THEN [raised |-> "FileNotFoundError", feeds |-> <<>>]
    ELSE [raised |-> "none", feeds |-> feed_lines(<<>>, splitlines(file.text))]

load_rss_feeds(file) ==
    IF ~file.exists
    THEN [raised |-> "FileNotFoundError", feeds |-> <<>>]
    ELSE LET feeds == feed_lines(<<>>, splitlines(file.text))
         IN  IF feeds = <<>>
             THEN [raised |-> "ValueError", feeds |-> <<>>]
             ELSE [raised |-> "none", feeds |-> feeds]

----------------------------------------------------------------------------
(* load_prompt_template *)

\* load_prompt_template(path): the Template, or the exception raised.
load_prompt_template(file) ==
    IF ~file.exists
    THEN [raised |-> "FileNotFoundError", template |-> <<>>]
    ELSE [raised |-> "none", template |-> file.text]

----------------------------------------------------------------------------
(* fetch_articles *)

MAX_ARTICLES == 15

\* getattr(entry, name, "")
getattr(entry, name) == IF entry[name] = Absent THEN <<>> ELSE entry[name]

\* a or b, for strings
py_or(a, b) == IF a # <<>> THEN a ELSE b

\* feedparser.parse(feed_url): a URL that yields nothing parses to no entries.
parse(w, feed_url) ==
    IF feed_url \in DOMAIN w
    THEN w[feed_url]
    ELSE [title |-> Absent, entries |-> <<>>]

\* The test that drops an entry: not title or not link.
\* Variant: only the title is required.
entry_dropped_title_only(title, link) == title = <<>>

entry_dropped(title, link) == title = <<>> \/ link = <<>>

\* The body of the loop over parsed.entries.
entry_step(arts, entry, feed_title, feed_url) ==
    LET title == strip(getattr(entry, "title"))
        link == strip(getattr(entry, "link"))
        summary == py_or(getattr(entry, "summary"), getattr(entry, "description"))
        published == py_or(getattr(entry, "published"), getattr(entry, "updated"))
    IN  IF entry_dropped(title, link)
        THEN arts
        ELSE Append(arts, [title |-> title,
                           link |-> link,
                           summary |-> summary,
                           published |-> published,
                           source |-> IF feed_title = Absent
                                      THEN feed_url
                                      ELSE feed_title])

RECURSIVE entries_loop(_, _, _, _)
entries_loop(arts, entries, feed_title, feed_url) ==
    IF entries = <<>> THEN arts
    ELSE entries_loop(entry_step(arts, Head(entries), feed_title, feed_url),
                      Tail(entries), feed_title, feed_url)

\* The loop over RSS_FEEDS: every kept entry, in fetch order.
RECURSIVE feeds_loop(_, _, _)
feeds_loop(arts, feeds, w) ==
    IF feeds = <<>> THEN arts
    ELSE LET parsed == parse(w, Head(feeds))
         IN  feeds_loop(entries_loop(arts, parsed.entries, parsed.title, Head(feeds)),
                        Tail(feeds), w)

\* unique[a["link"]] = a, on a dict kept as the list of its values in
\* insertion order: a key already present keeps its place and takes the value.
\* Variant: a key already present keeps its first value.
dict_set_keeps_first(d, a) ==
    IF \E i \in 1..Len(d) : d[i].link = a.link THEN d ELSE Append(d, a)

dict_set(d, a) ==
    IF \E i \in 1..Len(d) : d[i].link = a.link
    THEN [i \in 1..Len(d) |-> IF d[i].link = a.link THEN a ELSE d[i]]
    ELSE Append(d, a)

RECURSIVE dedup(_, _)
dedup(d, arts) ==
    IF arts = <<>> THEN d ELSE dedup(dict_set(d, Head(arts)), Tail(arts))

\* Where a goes in a list sorted by published, descending: after every
\* element that does not sort after it (list.sort is stable, also reversed).
\* Variant: ascending order.
insert_ascending(sorted, a) ==
    LET n == Cardinality({i \in 1..Len(sorted) :
                            ~str_less(a.published, sorted[i].published)})
    IN  SubSeq(sorted, 1, n) \o <<a>> \o SubSeq(sorted, n + 1, Len(sorted))

insert_sorted(sorted, a) ==
    LET n == Cardinality({i \in 1..Len(sorted) :
                            ~str_less(sorted[i].published, a.published)})
    IN  SubSeq(sorted, 1, n) \o <<a>> \o SubSeq(sorted, n + 1, Len(sorted))

\* articles.sort(key=sort_key, reverse=True)
RECURSIVE sort_desc(_, _)
sort_desc(sorted, arts) ==
    IF arts = <<>> THEN sorted
    ELSE sort_desc(insert_sorted(sorted, Head(arts)), Tail(arts))

\* articles[:MAX_ARTICLES]
\* Variant: no cap.
truncate_none(arts) == arts

truncate(arts) ==
    SubSeq(arts, 1, IF Len(arts) < MAX_ARTICLES THEN Len(arts) ELSE MAX_ARTICLES)

\* fetch_articles(): the dict of unique articles and the list returned.
fetch_articles(feeds, w) ==
    LET collected == feeds_loop(<<>>, feeds, w)
        uniq == dedup(<<>>, collected)
    IN  [unique |-> uniq, articles |-> truncate(sort_desc(<<>>, uniq))]

----------------------------------------------------------------------------
(* generate_report_md *)

\* "OPENAI_API_KEY"
OPENAI_API_KEY == <<79, 80, 69, 78, 65, 73, 95, 65, 80, 73, 95, 75, 69, 89>>

\* The name of the model requested.
OPENAI_MODEL == "gpt-5-nano"

\* The length a summary is cut to in the prompt.
SUMMARY_CUT == 500

\* The fallback text, which holds the date.
Fallback(day) == [kind |-> "fallback", date |-> day]

\* A text the completion API answered.
Completion(n) == [kind |-> "completion", id |-> n]

\* build_articles_block(articles)
build_articles_block(arts) ==
    [i \in 1..Len(arts) |->
        [idx |-> i,
         title |-> arts[i].title,
         source |-> arts[i].source,
         published |-> arts[i].published,
         link |-> arts[i].link,
         summary |-> SubSeq(arts[i].summary, 1,
                            IF Len(arts[i].summary) < SUMMARY_CUT
                            THEN Len(arts[i].summary)
                            ELSE SUMMARY_CUT)]]

\* Template.substitute(today=..., articles_block=...): KeyError when the
\* template names a placeholder that is not given.
build_llm_prompt(template, arts, day) ==
    IF \E i \in 1..Len(template) : template[i] \notin {"today", "articles_block"}
    THEN [raised |-> "KeyError", prompt |-> <<>>]
    ELSE [raised |-> "none",
          prompt |-> [today |-> day, articles_block |-> build_articles_block(arts)]]

\* The test on the credential: not api_key.
\* Variant: the credential is never found missing.
key_missing_never(env) == FALSE

key_missing(env) == OPENAI_API_KEY \notin DOMAIN env \/ env[OPENAI_API_KEY] = <<>>

\* Lines 147 to 165: the prompt, the request and the answer.  reply is what
\* the API does when asked: "APIError", or a message content (None included).
request_completion(template, arts, day, reply) ==
    LET built == build_llm_prompt(template, arts, day)
        request == [model |-> OPENAI_MODEL,
                    system |-> "You write clear, concise Markdown reports.",
                    user |-> built.prompt]
    IN  IF built.raised # "none"
        THEN [raised |-> built.raised, text |-> None, requests |-> <<>>]
        ELSE IF reply = APIError
        THEN [raised |-> "APIError", text |-> None, requests |-> <<request>>]
        ELSE [raised |-> "none", text |-> reply, requests |-> <<request>>]

\* generate_report_md(articles): the text returned or the exception raised,
\* and the requests made to the completion API.
\* Variant: the empty list is tested before the credential.
generate_report_md_empty_first(env, template, arts, day, reply) ==
    IF arts = <<>>
    THEN [raised |-> "none", text |-> Fallback(day), requests |-> <<>>]
    ELSE IF key_missing(env)
    THEN [raised |-> "RuntimeError", text |-> None, requests |-> <<>>]
    ELSE request_completion(template, arts, day, reply)

generate_report_md(env, template, arts, day, reply) ==
    IF key_missing(env)
    THEN [raised |-> "RuntimeError", text |-> None, requests |-> <<>>]
    ELSE IF arts = <<>>
    THEN [raised |-> "none", text |-> Fallback(day), requests |-> <<>>]
    ELSE request_completion(template, arts, day, reply)

----------------------------------------------------------------------------
(* save_report *)

\* path.write_text(markdown_text): the files after it.
\* Variant: an existing file is left as it is.
write_text_keeps_old(fs, day, text) ==
    IF fs[day] = NoFile THEN [fs EXCEPT ![day] = text] ELSE fs

write_text(fs, day, text) == [fs EXCEPT ![day] = text]

\* save_report(markdown_text): mkdir(exist_ok=True) raises only when reports
\* is not a directory; write_text refuses a text that is not a str before it
\* opens the file.
\* Variant: the file is written before the text is refused.
save_report_opens_first(node, fs, day, text) ==
    IF node = "file"
    THEN [raised |-> "FileExistsError", node |-> node, files |-> fs]
    ELSE IF text = None
    THEN [raised |-> "TypeError", node |-> "dir", files |-> write_text(fs, day, text)]
    ELSE [raised |-> "none", node |-> "dir", files |-> write_text(fs, day, text)]

save_report(node, fs, day, text) ==
    IF node = "file"
    THEN [raised |-> "FileExistsError", node |-> node, files |-> fs]
    ELSE IF text = None
    THEN [raised |-> "TypeError", node |-> "dir", files |-> fs]
    ELSE [raised |-> "none", node |-> "dir", files |-> write_text(fs, day, text)]

----------------------------------------------------------------------------
(* The program: the module's top-level statements, then main() *)

\* Line 34: load_env_file(ENV_FILE)
LoadEnvFile ==
    /\ pc = "env"
    /\ LET r == load_env_file(envFile, environ)
       IN  /\ environ' = r.env
           /\ pc' = IF r.raised THEN "error" ELSE "feeds"
           /\ error' = IF r.raised THEN "OSError" ELSE "none"
    /\ UNCHANGED <<envFile, feedsFile, RSS_FEEDS, templateFile, PROMPT_TEMPLATE,
                   web, unique, articles, report_md, apiRequests, today,
                   reportsNode, files, saveCalls, runs>>

\* Line 64: RSS_FEEDS = load_rss_feeds(FEEDS_FILE)
LoadRssFeeds ==
    /\ pc = "feeds"
    /\ LET r == load_rss_feeds(feedsFile)
       IN  /\ RSS_FEEDS' = r.feeds
           /\ pc' = IF r.raised = "none" THEN "template" ELSE "error"
           /\ error' = r.raised
    /\ UNCHANGED <<envFile, environ, feedsFile, templateFile, PROMPT_TEMPLATE,
                   web, unique, articles, report_md, apiRequests, today,
                   reportsNode, files, saveCalls, runs>>

\* Line 65: PROMPT_TEMPLATE = load_prompt_template(PROMPT_TEMPLATE_FILE),
\* and then line 185 calls main().
LoadPromptTemplate ==
    /\ pc = "template"
    /\ LET r == load_prompt_template(templateFile)
       IN  /\ PROMPT_TEMPLATE' = r.template
           /\ pc' = IF r.raised = "none" THEN "fetch" ELSE "error"
           /\ error' = r.raised
    /\ UNCHANGED <<envFile, environ, feedsFile, RSS_FEEDS, templateFile,
                   web, unique, articles, report_md, apiRequests, today,
                   reportsNode, files, saveCalls, runs>>

\* Line 179: articles = fetch_articles()
FetchArticles ==
    /\ pc = "fetch"
    /\ LET r == fetch_articles(RSS_FEEDS, web)
       IN  /\ unique' = r.unique
           /\ articles' = r.articles
    /\ pc' = "generate"
    /\ UNCHANGED <<error, envFile, environ, feedsFile, RSS_FEEDS, templateFile,
                   PROMPT_TEMPLATE, web, report_md, apiRequests, today,
                   reportsNode, files, saveCalls, runs>>

\* What the completion API may do when asked.
Replies == {APIError, None, Completion(1), Completion(2)}

\* Line 180: report_md = generate_report_md(articles)
GenerateReport ==
    /\ pc = "generate"
    /\ \E reply \in Replies :
          LET r == generate_report_md(environ, PROMPT_TEMPLATE, articles, today, reply)
          IN  /\ report_md' = r.text
              /\ apiRequests' = apiRequests \o r.requests
              /\ pc' = IF r.raised = "none" THEN "save" ELSE "error"
              /\ error' = r.raised
    /\ UNCHANGED <<envFile, environ, feedsFile, RSS_FEEDS, templateFile,
                   PROMPT_TEMPLATE, web, unique, articles, today,
                   reportsNode, files, saveCalls, runs>>

\* Line 181: save_report(report_md)
SaveReport ==
    /\ pc = "save"
    /\ LET r == save_report(reportsNode, files, today, report_md)
       IN  /\ reportsNode' = r.node
           /\ files' = r.files
           /\ pc' = IF r.raised = "none" THEN "done" ELSE "error"
           /\ error' = r.raised
           /\ saveCalls' = IF r.raised = "none"
                           THEN Append(saveCalls, [date |-> today, text |-> report_md])
                           ELSE saveCalls
    /\ UNCHANGED <<envFile, environ, feedsFile, RSS_FEEDS, templateFile,
                   PROMPT_TEMPLATE, web, unique, articles, report_md,
                   apiRequests, today, runs>>

----------------------------------------------------------------------------
(* The environment of the program *)

MaxDay == 2
MaxRuns == 2

\* The name and two values of the credential.
KeyValue == <<107>>

NoEnv == [k \in {} |-> <<>>]

\* The environments the program is started in.
LaunchEnvs ==
    {NoEnv, [k \in {OPENAI_API_KEY} |-> <<>>], [k \in {OPENAI_API_KEY} |-> KeyValue]}

\* get_today_str() reads the clock, and the date changes at midnight UTC.
Midnight ==
    /\ today < MaxDay
    /\ today' = today + 1
    /\ UNCHANGED <<pc, error, envFile, environ, feedsFile, RSS_FEEDS, templateFile,
                   PROMPT_TEMPLATE, web, unique, articles, report_md, apiRequests,
                   reportsNode, files, saveCalls, runs>>

\* The program is started again (the scheduled job's next run): a new
\* process, the same files.
NewRun ==
    /\ pc \in {"done", "error"}
    /\ runs < MaxRuns
    /\ runs' = runs + 1
    /\ pc' = "env"
    /\ error' = "none"
    /\ environ' \in LaunchEnvs
    /\ RSS_FEEDS' = <<>>
    /\ PROMPT_TEMPLATE' = <<>>
    /\ unique' = <<>>
    /\ articles' = <<>>
    /\ report_md' = None
    /\ apiRequests' = <<>>
    /\ UNCHANGED <<envFile, feedsFile, templateFile, web, today, reportsNode,
                   files, saveCalls>>

\* A process that has not run a statement yet, with no report written.
Fresh ==
    /\ error = "none"
    /\ unique = <<>>
    /\ articles = <<>>
    /\ report_md = None
    /\ apiRequests = <<>>
    /\ today = 1
    /\ files = [d \in 1..MaxDay |-> NoFile]
    /\ saveCalls = <<>>
    /\ runs = 1

----------------------------------------------------------------------------
(* Inputs *)

\* Every string over an alphabet, up to a length.
RECURSIVE StringsUpTo(_, _)
StringsUpTo(alphabet, n) ==
    IF n = 0 THEN {<<>>}
    ELSE LET shorter == StringsUpTo(alphabet, n - 1)
         IN  shorter \cup {Append(t, c) : t \in shorter, c \in alphabet}

\* Every sequence over a set, up to a length.
SeqsUpTo(S, n) == UNION {[1..k -> S] : k \in 0..n}

\* A feed entry.
Entry(title, link, published, updated) ==
    [title |-> title, link |-> link, summary |-> Absent, description |-> <<100>>,
     published |-> published, updated |-> updated]

\* The two feed URLs of the fetch inputs, and one that yields nothing.
FeedA == <<97>>
FeedB == <<98>>
FeedDown == <<120>>

\* Entries that exercise every branch of the extraction: titles and links
\* missing, blank or padded, a link shared by entries with different titles,
\* published missing, empty, a prefix of another, or taken from updated.
FreeEntries ==
    { Entry(<<84>>, <<65>>, <<50>>, Absent),
      Entry(<<85>>, <<SPACE, 65, SPACE>>, <<49>>, Absent),
      Entry(<<86>>, <<65>>, Absent, Absent),
      Entry(Absent, <<66>>, <<50>>, Absent),
      Entry(<<SPACE>>, <<67>>, <<50>>, Absent),
      Entry(<<84>>, Absent, <<50>>, Absent),
      Entry(<<84>>, <<SPACE, LF>>, <<49>>, Absent),
      Entry(<<SPACE, 87>>, <<90>>, <<>>, <<51>>),
      Entry(<<84>>, <<89>>, <<49, 48>>, <<51>>),
      Entry(<<85>>, <<90>>, <<49>>, Absent) }

\* The i-th entry of a long feed: links all different, published following
\* one of three patterns (none, three values in rotation, every other one).
BulkEntry(i, pattern) ==
    Entry(<<116>>, <<64 + i>>,
          IF pattern = 1 THEN <<48 + (i % 3)>>
          ELSE IF pattern = 2 /\ i % 2 = 1 THEN <<49, 48 + (i % 4)>>
          ELSE Absent,
          Absent)

MaxBulk == 16
MaxFree == 2

BulkFeeds ==
    {[i \in 1..n |-> BulkEntry(i, pattern)] :
        n \in {0} \cup ((MAX_ARTICLES - 2)..MaxBulk), pattern \in 0..2}

\* What the feeds return: a long feed and a short one, in either order.
FetchWebs ==
    {[u \in {FeedA, FeedB} |->
        IF u = FeedA
        THEN [title |-> IF bulkFirst THEN <<70>> ELSE Absent,
              entries |-> IF bulkFirst THEN bulk ELSE free]
        ELSE [title |-> Absent,
              entries |-> IF bulkFirst THEN free ELSE bulk]] :
        bulk \in BulkFeeds, free \in SeqsUpTo(FreeEntries, MaxFree),
        bulkFirst \in BOOLEAN}

\* The alphabets of the configuration files' texts.
EnvAlphabet == {LF, SPACE, HASH, EQUALS, DQUOTE, 65}
FeedAlphabet == {LF, CR, SPACE, HASH, 117}

MaxEnvLen == 5
MaxFeedLen == 6

\* The environments load_env_file is tried in: A unset, empty, or set.
EnvsOfA == {NoEnv, [k \in {<<65>>} |-> <<>>], [k \in {<<65>>} |-> <<65, 65>>]}

----------------------------------------------------------------------------
(* Specifications *)

\* load_env_file on every short settings file.
InitEnv ==
    /\ Fresh
    /\ pc = "env"
    /\ envFile \in {Missing} \cup {File(t) : t \in StringsUpTo(EnvAlphabet, MaxEnvLen)}
    /\ environ \in EnvsOfA
    /\ feedsFile = Missing
    /\ RSS_FEEDS = <<>>
    /\ templateFile = Missing
    /\ PROMPT_TEMPLATE = <<>>
    /\ web = NoEnv
    /\ reportsNode = "absent"

SpecEnv == InitEnv /\ [][LoadEnvFile]_vars

\* load_rss_feeds on every short feed-list file.
InitFeeds ==
    /\ Fresh
    /\ pc = "feeds"
    /\ envFile = Missing
    /\ environ = NoEnv
    /\ feedsFile \in {Missing} \cup {File(t) : t \in StringsUpTo(FeedAlphabet, MaxFeedLen)}
    /\ RSS_FEEDS = <<>>
    /\ templateFile = Missing
    /\ PROMPT_TEMPLATE = <<>>
    /\ web = NoEnv
    /\ reportsNode = "absent"

SpecFeeds == InitFeeds /\ [][LoadRssFeeds]_vars

\* fetch_articles on feeds long enough to be truncated.
InitFetch ==
    /\ Fresh
    /\ pc = "fetch"
    /\ envFile = Missing
    /\ environ = NoEnv
    /\ feedsFile = Missing
    /\ RSS_FEEDS = <<FeedA, FeedDown, FeedB>>
    /\ templateFile = Missing
    /\ PROMPT_TEMPLATE = <<>>
    /\ web \in FetchWebs
    /\ reportsNode = "absent"

SpecFetch == InitFetch /\ [][FetchArticles]_vars

\* The whole program, run up to MaxRuns times over the same files.
EnvFiles ==
    {Missing, File(OPENAI_API_KEY \o <<EQUALS, DQUOTE, 102, DQUOTE>>)}

FeedsFiles ==
    {Missing, File(<<HASH, 99, LF, LF>>), File(<<97, LF, HASH, 98, LF, 98, SPACE>>)}

TemplateFiles ==
    {Missing, File(<<"today", "articles_block">>), File(<<"today", "other">>)}

Webs ==
    {[u \in {FeedA, FeedB} |->
        IF u = FeedA
        THEN [title |-> <<70>>, entries |-> a]
        ELSE [title |-> Absent, entries |-> <<>>]] :
        a \in {<<>>,
               <<Entry(<<84>>, Absent, <<50>>, Absent)>>,
               <<Entry(<<84>>, <<65>>, <<50>>, Absent),
                 Entry(<<85>>, <<65>>, <<49>>, Absent)>>}}

Init ==
    /\ Fresh
    /\ pc = "env"
    /\ envFile \in EnvFiles
    /\ environ \in LaunchEnvs
    /\ feedsFile \in FeedsFiles
    /\ RSS_FEEDS = <<>>
    /\ templateFile \in TemplateFiles
    /\ PROMPT_TEMPLATE = <<>>
    /\ web \in Webs
    /\ reportsNode \in {"absent", "dir", "file"}

Next ==
    \/ LoadEnvFile
    \/ LoadRssFeeds
    \/ LoadPromptTemplate
    \/ FetchArticles
    \/ GenerateReport
    \/ SaveReport
    \/ Midnight
    \/ NewRun

Spec == Init /\ [][Next]_vars

----------------------------------------------------------------------------
(* Properties of fetch_articles, under SpecFetch *)

\* The entries the feeds return, with their feed URL, in fetch order.
RECURSIVE FetchOrder(_)
FetchOrder(feeds) ==
    IF feeds = <<>> THEN <<>>
    ELSE LET es == parse(web, Head(feeds)).entries
         IN  [i \in 1..Len(es) |-> es[i]] \o FetchOrder(Tail(feeds))

\* A string attribute that is there and is not only whitespace.
NonBlank(x) == x # Absent /\ \E i \in 1..Len(x) : x[i] \notin Whitespace

\* An entry that has a title and a link.
ValidEntry(e) == NonBlank(e.title) /\ NonBlank(e.link)

\* C1: the list fetch_articles returns has pairwise distinct links, at most
\* MAX_ARTICLES elements, and is ordered non-increasingly by the published
\* string; an article with an empty published string comes after every
\* article with a non-empty one.
C1_ResultDistinctCappedSorted ==
    pc = "generate" =>
        /\ \A i, j \in 1..Len(articles) :
              i # j => articles[i].link # articles[j].link
        /\ Len(articles) <= 15
        /\ \A i, j \in 1..Len(articles) :
              i < j => ~str_less(articles[i].published, articles[j].published)
        /\ \A i, j \in 1..Len(articles) :
              articles[i].published = <<>> /\ articles[j].published # <<>> => j < i

\* C1's case: more than 15 distinct links fetched, some dated and some not,
\* and the list returned is full.
C1_Witness ==
    /\ pc = "generate"
    /\ Len(unique) > 15
    /\ Len(articles) = 15
    /\ \E i, j \in 1..Len(articles) :
          articles[i].published # <<>> /\ articles[j].published = <<>>
    /\ \E i, j \in 1..Len(articles) :
          str_less(articles[j].published, articles[i].published)

\* C4: for every link that occurs among the valid entries, the deduplicated
\* set holds exactly one record with that link, and it is the record built
\* from the last such entry in fetch order.
C4_LastWriteWins ==
    pc = "generate" =>
        LET fetched == feeds_loop(<<>>, RSS_FEEDS, web)
        IN  \A k \in 1..Len(fetched) :
               LET last == CHOOSE m \in 1..Len(fetched) :
                              /\ fetched[m].link = fetched[k].link
                              /\ \A n \in (m + 1)..Len(fetched) :
                                    fetched[n].link # fetched[k].link
               IN  /\ Cardinality({i \in 1..Len(unique) :
                                     unique[i].link = fetched[k].link}) = 1
                   /\ \A i \in 1..Len(unique) :
                         unique[i].link = fetched[k].link => unique[i] = fetched[last]

\* C4's case: two valid entries share a link and differ in title, and the
\* set holds the later one.
C4_Witness ==
    /\ pc = "generate"
    /\ LET fetched == feeds_loop(<<>>, RSS_FEEDS, web)
       IN  \E k, m \in 1..Len(fetched) :
              /\ k < m
              /\ fetched[k].link = fetched[m].link
              /\ fetched[k].title # fetched[m].title
              /\ fetched[k].source # fetched[m].source
              /\ \E i \in 1..Len(unique) : unique[i] = fetched[m]

\* C9: every article kept has a non-empty title and a non-empty link and is
\* built from an entry that has both; an entry lacking either does not stop
\* the fetch: every entry that has both still has its link in the set.
C9_InvalidEntriesDropped ==
    pc = "generate" =>
        LET es == FetchOrder(RSS_FEEDS)
        IN  /\ \A i \in 1..Len(unique) :
                  /\ unique[i].title # <<>>
                  /\ unique[i].link # <<>>
                  /\ \E k \in 1..Len(es) :
                        /\ ValidEntry(es[k])
                        /\ unique[i].title = strip(es[k].title)
                        /\ unique[i].link = strip(es[k].link)
            /\ \A i \in 1..Len(articles) :
                  \E k \in 1..Len(unique) : articles[i] = unique[k]
            /\ \A k \in 1..Len(es) :
                  ValidEntry(es[k]) =>
                      \E i \in 1..Len(unique) : unique[i].link = strip(es[k].link)

\* C9's case: an entry without a title and one with a blank link come before
\* a valid entry, which is kept.
C9_Witness ==
    /\ pc = "generate"
    /\ LET es == FetchOrder(RSS_FEEDS)
       IN  \E a, b, c \in 1..Len(es) :
              /\ a < c /\ b < c
              /\ es[a].title = Absent
              /\ es[b].link # Absent /\ ~NonBlank(es[b].link)
              /\ ValidEntry(es[c])
              /\ \E i \in 1..Len(articles) : articles[i].link = strip(es[c].link)

----------------------------------------------------------------------------
(* Properties of load_env_file, under SpecEnv *)

\* C5: load_env_file leaves the value of every name that was set before the
\* call as it was and only adds names; a missing settings file leaves the
\* whole environment as it was.
C5_ExistingEnvironmentWins ==
    [][pc = "env" =>
          /\ \A k \in DOMAIN environ :
                k \in DOMAIN environ' /\ environ'[k] = environ[k]
          /\ ~envFile.exists => environ' = environ]_vars

\* C5's case: the file is A=A, A was set to AA before the call, and it
\* still is after it.
C5_Witness ==
    /\ pc = "feeds"
    /\ envFile = File(<<65, EQUALS, 65>>)
    /\ <<65>> \in DOMAIN environ
    /\ environ[<<65>>] = <<65, 65>>

----------------------------------------------------------------------------
(* Properties of load_rss_feeds, under SpecFeeds *)

\* The lines of the feed-list file.
FeedLines == splitlines(feedsFile.text)

\* The indices of the lines that are neither blank nor comments.
UsableLines ==
    {i \in 1..Len(FeedLines) :
        /\ \E j \in 1..Len(FeedLines[i]) : FeedLines[i][j] \notin Whitespace
        /\ Head(strip(FeedLines[i])) # HASH}

\* The k-th smallest element of a set of numbers.
Kth(S, k) == CHOOSE i \in S : Cardinality({j \in S : j <= i}) = k

\* C6: when the feed-list file has N > 0 lines that are neither blank nor
\* comments, load_rss_feeds returns exactly N URLs: those lines trimmed, in
\* the order of the file.
C6_FeedsAreUsableLinesInOrder ==
    (pc # "feeds" /\ feedsFile.exists /\ UsableLines # {}) =>
        /\ pc = "template"
        /\ Len(RSS_FEEDS) = Cardinality(UsableLines)
        /\ \A k \in 1..Len(RSS_FEEDS) :
              RSS_FEEDS[k] = strip(FeedLines[Kth(UsableLines, k)])

\* C6's case: a file with a comment, a blank line and two URL lines, one of
\* them padded, loaded as two URLs.
C6_Witness ==
    /\ pc = "template"
    /\ Len(FeedLines) > Cardinality(UsableLines)
    /\ \E i \in 1..Len(FeedLines) : startswith(strip(FeedLines[i]), HASH)
    /\ \E i \in UsableLines : FeedLines[i] # strip(FeedLines[i])
    /\ Len(RSS_FEEDS) = 2

\* C7: load_rss_feeds raises, and returns no list, when the file is missing
\* and when it has no line that is neither blank nor a comment; it never
\* returns an empty list.
C7_MissingOrEmptyFeedListFails ==
    /\ (pc # "feeds" /\ (~feedsFile.exists \/ UsableLines = {})) =>
          /\ pc = "error"
          /\ error \in {"FileNotFoundError", "ValueError"}
          /\ RSS_FEEDS = <<>>
    /\ pc = "template" => RSS_FEEDS # <<>>

\* C7's case: a file of a comment line and a blank line, refused.
C7_Witness ==
    /\ pc = "error"
    /\ error = "ValueError"
    /\ feedsFile.exists
    /\ Len(FeedLines) = 2
    /\ \E i \in 1..Len(FeedLines) : startswith(strip(FeedLines[i]), HASH)

----------------------------------------------------------------------------
(* Properties of the run, under Spec *)

\* generate_report_md has returned or raised in this process.
GenerationOver ==
    \/ pc \in {"save", "done"}
    \/ pc = "error" /\ error \in {"RuntimeError", "KeyError", "APIError",
                                  "FileExistsError", "TypeError"}

\* generate_report_md raised.
GenerationFailed ==
    pc = "error" /\ error \in {"RuntimeError", "KeyError", "APIError"}

\* The credential is set to a non-empty value.
CredentialSet ==
    OPENAI_API_KEY \in DOMAIN environ /\ environ[OPENAI_API_KEY] # <<>>

\* C2, as claimed: with an empty article list generate_report_md returns the
\* fallback text and makes no request, whether or not the credential is set.
C2_EmptyListAlwaysFallback ==
    (GenerationOver /\ articles = <<>>) =>
        /\ ~GenerationFailed
        /\ report_md.kind = "fallback"
        /\ apiRequests = <<>>

\* C2, amended: with an empty article list generate_report_md makes no
\* request; it returns the fallback text when the credential is set, and
\* raises the configuration error when the credential is absent or empty.
C2_EmptyListFallbackNeedsCredential ==
    (GenerationOver /\ articles = <<>>) =>
        /\ apiRequests = <<>>
        /\ CredentialSet =>
              /\ ~GenerationFailed
              /\ report_md.kind = "fallback"
              /\ report_md.date <= today
        /\ ~CredentialSet =>
              /\ pc = "error"
              /\ error = "RuntimeError"
              /\ report_md = None

\* C2's case: no article, the credential set, the fallback text saved.
C2_Witness ==
    /\ pc = "done"
    /\ articles = <<>>
    /\ CredentialSet
    /\ report_md = Fallback(today)
    /\ files[today] = Fallback(today)
    /\ apiRequests = <<>>

\* C3: with a non-empty article list and the credential absent or empty,
\* generate_report_md raises the configuration error, and no request to the
\* completion API has been made.
C3_MissingCredentialFailsBeforeRequest ==
    (GenerationOver /\ articles # <<>> /\ ~CredentialSet) =>
        /\ pc = "error"
        /\ error = "RuntimeError"
        /\ apiRequests = <<>>

\* C3's case: one article, the credential set to the empty string.
C3_Witness ==
    /\ pc = "error"
    /\ error = "RuntimeError"
    /\ Len(articles) = 1
    /\ OPENAI_API_KEY \in DOMAIN environ
    /\ environ[OPENAI_API_KEY] = <<>>

\* C8: a date's report file holds the text of the last save_report call made
\* on that date and nothing else, no other date's file is touched, and
\* save_report succeeds on a str whether reports is absent or a directory.
C8_SecondSaveOverwrites ==
    /\ [](\A d \in DOMAIN files :
            LET calls == {i \in 1..Len(saveCalls) : saveCalls[i].date = d}
            IN  IF calls = {}
                THEN files[d] = NoFile
                ELSE /\ files[d] = saveCalls[Kth(calls, Cardinality(calls))].text
                     /\ reportsNode = "dir")
    /\ [][(pc = "save" /\ pc' # "save" /\ reportsNode # "file" /\ report_md # None) =>
             /\ pc' = "done"
             /\ files' = [files EXCEPT ![today] = report_md]
             /\ Len(saveCalls') = Len(saveCalls) + 1]_vars

\* C8's case: two calls on the same date with different texts, the file
\* holding the second.
C8_Witness ==
    /\ pc = "done"
    /\ Len(saveCalls) = 2
    /\ saveCalls[1].date = saveCalls[2].date
    /\ saveCalls[1].text # saveCalls[2].text
    /\ files[saveCalls[2].date] = saveCalls[2].text
    /\ \A d \in DOMAIN files : d # saveCalls[2].date => files[d] = NoFile

\* The steps of the process, in the order of the program text.
StageOrder ==
    {<<"env", "feeds">>, <<"feeds", "template">>, <<"template", "fetch">>,
     <<"fetch", "generate">>, <<"generate", "save">>, <<"save", "done">>}

\* C10: the stages run in the order fetch_articles, generate_report_md,
\* save_report; a stage that fails ends the run; the report file is written
\* only by save_report after generate_report_md returned; a run whose
\* generation fails writes no file and leaves the files as they were; no
\* stage is run again before the program is started again; and a run that
\* ended without an error has written its file.
C10_StagesInOrderFailFast ==
    /\ [][/\ pc' # pc =>
                \/ <<pc, pc'>> \in StageOrder
                \/ pc \notin {"done", "error"} /\ pc' = "error" /\ error' # "none"
                \/ pc \in {"done", "error"} /\ pc' = "env" /\ runs' = runs + 1
          /\ files' # files =>
                /\ pc = "save" /\ pc' = "done"
                /\ report_md # None /\ error = "none"
          /\ (pc' = "error" \/ pc = "error") => files' = files]_vars
    /\ [](/\ pc = "done" =>
                /\ error = "none"
                /\ saveCalls # <<>>
                /\ saveCalls[Len(saveCalls)].text = report_md
                /\ files[saveCalls[Len(saveCalls)].date] = report_md
          /\ GenerationFailed => report_md = None
          /\ Len(apiRequests) <= 1)

\* C10's case: a second run fails in generation, on the completion API,
\* and the report the first run wrote that day is still there.
C10_Witness ==
    /\ runs = 2
    /\ pc = "error"
    /\ error = "APIError"
    /\ Len(apiRequests) = 1
    /\ Len(saveCalls) = 1
    /\ saveCalls[1].date = today
    /\ files[today] = saveCalls[1].text

====
